---- MODULE Spec2Model ----
(***************************************************************************)
(* A model of flamegraph.py: the spindump parser (take_until_empty_line,   *)
(* split_on_colon, TraceReport, ProcessTrace, ThreadTrace), the frame tree *)
(* (FrameSample.height, FrameSample.iteritems) and the per-thread layout   *)
(* loop of main().                                                         *)
(*                                                                         *)
(* A text line is the sequence of its code points.  A Python value         *)
(* that may be None is a record [isNone, v].  FrameSample objects live in  *)
(* a heap `nodes` (a sequence); a reference to a FrameSample is its index  *)
(* in the heap and the None reference is 0.                                *)
(***************************************************************************)
EXTENDS Integers, Sequences, FiniteSets, TLC

VARIABLES
    pc,                 \* where the program is
    lines,              \* the remaining lines (TraceReport.__init__, or None)
    sections,           \* the sections split off so far, in order
    trace_lines,        \* the thread block given to ThreadTrace.__init__
    idx,                \* number of body lines of the block already parsed
    nodes,              \* heap of FrameSample objects of the thread
    stack,              \* ThreadTrace.__init__: the local stack
    root_frame,         \* ThreadTrace.root_frame (0 is None)
    gen,                \* the generator returned by iteritems()
    yielded,            \* the triples the generator has yielded so far
    rects,              \* main(): the rectangles added so far
    document,           \* the lines the program was given
    report_attributes,  \* TraceReport.report_attributes
    process_attributes, \* the attributes handed to ProcessTrace
    process_sections,   \* TraceReport.__init__: the local process_sections
    threads,            \* ProcessTrace.threads
    report              \* the constructed TraceReport (or None)

vars == <<pc, lines, sections, trace_lines, idx, nodes, stack, root_frame,
          gen, yielded, rects, document, report_attributes, process_attributes,
          process_sections, threads, report>>

-----------------------------------------------------------------------------
(* Bounds of the checked inputs. *)

\* longest line list given to take_until_empty_line
MaxLines == 5
\* most body lines of a thread block
MaxBody == 5
\* most sections after the process header
MaxProc == 2

-----------------------------------------------------------------------------
(* Python values and builtins. *)

None == [isNone |-> TRUE, v |-> <<>>]
Some(x) == [isNone |-> FALSE, v |-> x]

Min(a, b) == IF a <= b THEN a ELSE b
Max(a, b) == IF a >= b THEN a ELSE b

\* s[:n]; a negative n counts from the end
PySliceTo(s, n) ==
    IF n >= 0 THEN SubSeq(s, 1, Min(n, Len(s)))
    ELSE SubSeq(s, 1, Max(Len(s) + n, 0))

\* s[n:] for n >= 0
PySliceFrom(s, n) == SubSeq(s, Min(n, Len(s)) + 1, Len(s))

\* s.startswith(p)
StartsWith(s, p) == Len(s) >= Len(p) /\ SubSeq(s, 1, Len(p)) = p

\* p in s
Contains(s, p) ==
    \E i \in 1..(Len(s) - Len(p) + 1) : SubSeq(s, i, i + Len(p) - 1) = p

\* A str is a sequence of code points.
\* the printable ASCII characters from " " (32) to "_" (95), in order
AsciiFromSpace ==
    " !\"#$%&'()*+,-./0123456789:;<=>?@ABCDEFGHIJKLMNOPQRSTUVWXYZ[\\]^_"
\* and those from "a" (97) to "~" (126)
AsciiFromA == "abcdefghijklmnopqrstuvwxyz{|}~"

\* ord(c) of one of these characters
Ord(c) ==
    IF \E i \in 1..Len(AsciiFromSpace) : SubSeq(AsciiFromSpace, i, i) = c
    THEN 31 + CHOOSE i \in 1..Len(AsciiFromSpace) : SubSeq(AsciiFromSpace, i, i) = c
    ELSE 96 + CHOOSE i \in 1..Len(AsciiFromA) : SubSeq(AsciiFromA, i, i) = c

RECURSIVE Codes(_)
\* the str a literal of these characters denotes
Codes(s) ==
    IF Len(s) = 0 THEN <<>>
    ELSE Append(Codes(SubSeq(s, 1, Len(s) - 1)), Ord(SubSeq(s, Len(s), Len(s))))

\* the characters str.strip() and str.lstrip() remove: those str.isspace()
\* holds of (Unicode 14.0, CPython 3.11)
Whitespace ==
    (9..13) \cup (28..32) \cup {133, 160, 5760} \cup (8192..8202)
        \cup {8232, 8233, 8239, 8287, 12288}

IsSpace(c) == c \in Whitespace

RECURSIVE LStrip(_)
\* s.lstrip()
LStrip(s) ==
    IF s # <<>> /\ IsSpace(Head(s)) THEN LStrip(Tail(s)) ELSE s

RECURSIVE RStrip(_)
\* s.rstrip()
RStrip(s) ==
    IF s # <<>> /\ IsSpace(s[Len(s)]) THEN RStrip(SubSeq(s, 1, Len(s) - 1))
    ELSE s

\* s.strip()
Strip(s) == RStrip(LStrip(s))

\* the decimal digits (category Nd) that \\d of a str pattern matches and
\* int() reads: runs of code points, each run counting 0..9 from its start
\* (Unicode 14.0, CPython 3.11)
Digits ==
    { <<48, 57>>, <<1632, 1641>>, <<1776, 1785>>, <<1984, 1993>>,
      <<2406, 2415>>, <<2534, 2543>>, <<2662, 2671>>, <<2790, 2799>>,
      <<2918, 2927>>, <<3046, 3055>>, <<3174, 3183>>, <<3302, 3311>>,
      <<3430, 3439>>, <<3558, 3567>>, <<3664, 3673>>, <<3792, 3801>>,
      <<3872, 3881>>, <<4160, 4169>>, <<4240, 4249>>, <<6112, 6121>>,
      <<6160, 6169>>, <<6470, 6479>>, <<6608, 6617>>, <<6784, 6793>>,
      <<6800, 6809>>, <<6992, 7001>>, <<7088, 7097>>, <<7232, 7241>>,
      <<7248, 7257>>, <<42528, 42537>>, <<43216, 43225>>, <<43264, 43273>>,
      <<43472, 43481>>, <<43504, 43513>>, <<43600, 43609>>, <<44016, 44025>>,
      <<65296, 65305>>, <<66720, 66729>>, <<68912, 68921>>, <<69734, 69743>>,
      <<69872, 69881>>, <<69942, 69951>>, <<70096, 70105>>, <<70384, 70393>>,
      <<70736, 70745>>, <<70864, 70873>>, <<71248, 71257>>, <<71360, 71369>>,
      <<71472, 71481>>, <<71904, 71913>>, <<72016, 72025>>, <<72784, 72793>>,
      <<73040, 73049>>, <<73120, 73129>>, <<92768, 92777>>, <<92864, 92873>>,
      <<93008, 93017>>, <<120782, 120831>>, <<123200, 123209>>,
      <<123632, 123641>>, <<125264, 125273>>, <<130032, 130041>> }

\* the characters of these runs
DecimalDigits == UNION {r[1]..r[2] : r \in Digits}

IsDigit(c) == c \in DecimalDigits

DigitValue(c) ==
    LET r == CHOOSE r \in Digits : r[1] <= c /\ c <= r[2]
    IN  (c - r[1]) % 10

RECURSIVE ParseInt(_)
\* int(s) of a non-empty run of decimal digits
ParseInt(s) ==
    IF Len(s) = 1 THEN DigitValue(s[1])
    ELSE ParseInt(SubSeq(s, 1, Len(s) - 1)) * 10 + DigitValue(s[Len(s)])

RECURSIVE DigitRunEnd(_, _)
\* the 0-based end (exclusive) of the digit run that holds position i
DigitRunEnd(s, i) ==
    IF i < Len(s) /\ IsDigit(s[i + 1]) THEN DigitRunEnd(s, i + 1) ELSE i

\* _DIGIT_RE.search(s): the leftmost longest run of digits, 0-based
DigitSearch(s) ==
    IF \E i \in 1..Len(s) : IsDigit(s[i])
    THEN LET first == CHOOSE i \in 1..Len(s) :
                        /\ IsDigit(s[i])
                        /\ \A j \in 1..(i - 1) : ~IsDigit(s[j])
         IN  [found |-> TRUE, start |-> first - 1,
              end |-> DigitRunEnd(s, first)]
    ELSE [found |-> FALSE, start |-> 0, end |-> 0]

-----------------------------------------------------------------------------
(* take_until_empty_line *)

RECURSIVE ScanToEmpty(_, _)
\* the first while loop: the first index >= i of an empty line, or len(lines)
ScanToEmpty(ls, i) ==
    IF i < Len(ls) /\ Len(ls[i + 1]) # 0 THEN ScanToEmpty(ls, i + 1) ELSE i

RECURSIVE ScanToNonEmpty(_, _)
\* the second while loop: the first index >= i of a non-empty line, or more
ScanToNonEmpty(ls, i) ==
    IF i < Len(ls) /\ Len(ls[i + 1]) = 0 THEN ScanToNonEmpty(ls, i + 1) ELSE i

\* a bug to compare with: the scan for the next section starts at the empty line
\* found and takes it for the start of the rest
TakeUntilEmptyLineKeepsBlank(ls) ==
    IF ls.isNone \/ Len(ls.v) = 0 \/ Len(ls.v[1]) = 0
    THEN [ok |-> FALSE, first_lines |-> <<>>, rest_lines |-> None]
    ELSE LET empty_line_index == ScanToEmpty(ls.v, 1)
         IN  [ok |-> TRUE,
              first_lines |-> PySliceTo(ls.v, empty_line_index),
              rest_lines |-> IF empty_line_index < Len(ls.v)
                             THEN Some(PySliceFrom(ls.v, empty_line_index))
                             ELSE None]

\* take_until_empty_line(lines): ok is FALSE when the call raises
TakeUntilEmptyLine(ls) ==
    IF ls.isNone \/ Len(ls.v) = 0 \/ Len(ls.v[1]) = 0
    THEN [ok |-> FALSE, first_lines |-> <<>>, rest_lines |-> None]
    ELSE LET empty_line_index == ScanToEmpty(ls.v, 1)
             nonempty_line_index == ScanToNonEmpty(ls.v, empty_line_index + 1)
         IN  [ok |-> TRUE,
              first_lines |-> PySliceTo(ls.v, empty_line_index),
              rest_lines |-> IF nonempty_line_index < Len(ls.v)
                             THEN Some(PySliceFrom(ls.v, nonempty_line_index))
                             ELSE None]

-----------------------------------------------------------------------------
(* split_on_colon *)

Rule == Codes("---")
HeavyFormat == Codes("Heavy format")
Colon == Ord(":")
Space == Ord(" ")

\* the line is skipped by split_on_colon
IsSkipped(line) == Contains(line, Rule) \/ Contains(line, HeavyFormat)

HasColon(line) == \E i \in 1..Len(line) : line[i] = Colon

\* line.split(":", 1) of a line that holds a colon, the value stripped
SplitLine(line) ==
    LET c == CHOOSE i \in 1..Len(line) :
                 line[i] = Colon /\ \A j \in 1..(i - 1) : line[j] # Colon
    IN  <<SubSeq(line, 1, c - 1), Strip(SubSeq(line, c + 1, Len(line)))>>

RECURSIVE SplitOnColonLenient(_)
\* a bug to compare with: a line without a colon is skipped, not refused
SplitOnColonLenient(ls) ==
    IF ls = <<>> THEN [ok |-> TRUE, result |-> <<>>]
    ELSE LET rest == SplitOnColonLenient(Tail(ls))
         IN  IF IsSkipped(Head(ls)) \/ ~HasColon(Head(ls)) THEN rest
             ELSE [ok |-> rest.ok,
                   result |-> <<SplitLine(Head(ls))>> \o rest.result]

RECURSIVE SplitOnColon(_)
\* split_on_colon(lines): ok is FALSE when the assertion fails
SplitOnColon(ls) ==
    IF ls = <<>> THEN [ok |-> TRUE, result |-> <<>>]
    ELSE IF IsSkipped(Head(ls)) THEN SplitOnColon(Tail(ls))
    ELSE IF ~HasColon(Head(ls)) THEN [ok |-> FALSE, result |-> <<>>]
    ELSE LET rest == SplitOnColon(Tail(ls))
         IN  [ok |-> rest.ok,
              result |-> IF rest.ok THEN <<SplitLine(Head(ls))>> \o rest.result
                         ELSE <<>>]

-----------------------------------------------------------------------------
(* FrameSample *)

\* FrameSample.__init__
FrameSample(frame, sample_count) ==
    [frame |-> frame, sample_count |-> sample_count, child_samples |-> <<>>]

\* parent.add_child_sample(child) on the heap h
AddChildSample(h, parent, child) ==
    [h EXCEPT ![parent].child_samples = Append(@, child)]

RECURSIVE height(_, _)
RECURSIVE MaxHeight(_, _)
\* max(child_heights) of the non-empty list fs of frames of heap h
MaxHeight(h, fs) ==
    IF Len(fs) = 1 THEN height(h, fs[1])
    ELSE Max(height(h, fs[1]), MaxHeight(h, Tail(fs)))

\* a bug to compare with: a leaf has height 0
HeightLeafZero(h, f) ==
    IF Len(h[f].child_samples) > 0
    THEN MaxHeight(h, h[f].child_samples) + 1
    ELSE 0

\* FrameSample.height of frame f of heap h
height(h, f) ==
    IF Len(h[f].child_samples) > 0
    THEN MaxHeight(h, h[f].child_samples) + 1
    ELSE 1

(* iteritems: the generator is the chain of suspended __items_generator     *)
(* frames, the outermost first.  A frame holds its arguments, its local     *)
(* child_start and the number i of children whose loop iteration has begun. *)

\* self.__items_generator(start, depth), suspended at its first yield
GenFrame(self, start, depth) ==
    [self |-> self, start |-> start, depth |-> depth,
     child_start |-> start, i |-> 0]

\* FrameSample.iteritems: a generator not yet started
iteritems(root) == [started |-> FALSE, root |-> root, frames |-> <<>>]

NoItem == [some |-> FALSE, frame |-> 0, start |-> 0, depth |-> 0]
Item(f, s, d) == [some |-> TRUE, frame |-> f, start |-> s, depth |-> d]

RECURSIVE ResumeChildStartFirst(_, _)
\* a bug to compare with: child_start is advanced before the child's subtree
\* is emitted instead of after it
ResumeChildStartFirst(h, frames) ==
    IF frames = <<>> THEN [frames |-> <<>>, item |-> NoItem]
    ELSE LET n == Len(frames)
             top == frames[n]
             kids == h[top.self].child_samples
         IN  IF top.i < Len(kids)
             THEN LET child == kids[top.i + 1]
                      cs == top.child_start + h[child].sample_count
                  IN  [frames |-> Append(
                           [frames EXCEPT ![n].i = top.i + 1,
                                          ![n].child_start = cs],
                           GenFrame(child, cs, top.depth + 1)),
                       item |-> Item(child, cs, top.depth + 1)]
             ELSE ResumeChildStartFirst(h, SubSeq(frames, 1, n - 1))

RECURSIVE ResumeSkipsLaterChildren(_, _)
\* a bug to compare with: only the first child of a frame is traversed
ResumeSkipsLaterChildren(h, frames) ==
    IF frames = <<>> THEN [frames |-> <<>>, item |-> NoItem]
    ELSE LET n == Len(frames)
             top == frames[n]
             kids == h[top.self].child_samples
         IN  IF top.i < Min(1, Len(kids))
             THEN LET child == kids[top.i + 1]
                  IN  [frames |-> Append([frames EXCEPT ![n].i = top.i + 1],
                                         GenFrame(child, top.child_start,
                                                  top.depth + 1)),
                       item |-> Item(child, top.child_start, top.depth + 1)]
             ELSE ResumeSkipsLaterChildren(h, SubSeq(frames, 1, n - 1))

RECURSIVE Resume(_, _)
\* __items_generator resumed after a yield: the innermost frame goes on with
\* its for loop; a frame that ends returns to the frame that iterates it,
\* which adds the ended child's sample_count to its child_start
Resume(h, frames) ==
    IF frames = <<>> THEN [frames |-> <<>>, item |-> NoItem]
    ELSE LET n == Len(frames)
             top == frames[n]
             kids == h[top.self].child_samples
         IN  IF top.i < Len(kids)
             THEN LET child == kids[top.i + 1]
                  IN  [frames |-> Append([frames EXCEPT ![n].i = top.i + 1],
                                         GenFrame(child, top.child_start,
                                                  top.depth + 1)),
                       item |-> Item(child, top.child_start, top.depth + 1)]
             ELSE IF n = 1 THEN [frames |-> <<>>, item |-> NoItem]
             ELSE Resume(h, [SubSeq(frames, 1, n - 1) EXCEPT
                               ![n - 1].child_start =
                                   @ + h[top.self].sample_count])

\* next(g) of a generator g of iteritems(): the generator after the call and
\* the triple it yielded (none: StopIteration)
GenNext(h, g) ==
    IF ~g.started
    THEN [g |-> [started |-> TRUE, root |-> g.root,
                 frames |-> <<GenFrame(g.root, 0, 0)>>],
          item |-> Item(g.root, 0, 0)]
    ELSE LET r == Resume(h, g.frames)
         IN  [g |-> [g EXCEPT !.frames = r.frames], item |-> r.item]

-----------------------------------------------------------------------------
(* ThreadTrace *)

_INDENTATION == 2

\* a bug to compare with: the stack is cut to nested_level frames
ShortenStackToLevel(st, nested_level) ==
    IF Len(st) >= nested_level THEN PySliceTo(st, nested_level) ELSE st

\* lines 70-72: shorten stack to appropriate level
ShortenStack(st, nested_level) ==
    IF Len(st) >= nested_level THEN PySliceTo(st, nested_level - 1) ELSE st

\* indentation // _INDENTATION of a line that holds a digit
NestedLevel(trace_line) == DigitSearch(trace_line).start \div _INDENTATION

ParseFailed == [ok |-> FALSE, nodes |-> <<>>, stack |-> <<>>, root_frame |-> 0]

\* a bug to compare with: the indentation is not checked
TraceLineAnyIndent(s, trace_line) ==
    LET digit_match == DigitSearch(trace_line)
        nested_level == digit_match.start \div _INDENTATION
        st == ShortenStack(s.stack, nested_level)
        sample_count == ParseInt(SubSeq(trace_line, digit_match.start + 1,
                                        digit_match.end))
        frame == PySliceFrom(trace_line, digit_match.end + 1)
        new == Len(s.nodes) + 1
        heap == Append(s.nodes, FrameSample(frame, sample_count))
    IN  IF ~digit_match.found THEN ParseFailed
        ELSE IF Len(st) > 0
        THEN [ok |-> TRUE, nodes |-> AddChildSample(heap, st[Len(st)], new),
              stack |-> Append(st, new), root_frame |-> s.root_frame]
        ELSE IF s.root_frame # 0 THEN ParseFailed
        ELSE [ok |-> TRUE, nodes |-> heap, stack |-> Append(st, new),
              root_frame |-> new]

\* the body of the for loop of ThreadTrace.__init__ on one line, from the
\* state s = [ok, nodes, stack, root_frame]; ok is FALSE when an assertion fails
TraceLine(s, trace_line) ==
    LET digit_match == DigitSearch(trace_line)
        indentation == digit_match.start
        nested_level == indentation \div _INDENTATION
        st == ShortenStack(s.stack, nested_level)
        sample_count == ParseInt(SubSeq(trace_line, digit_match.start + 1,
                                        digit_match.end))
        frame == PySliceFrom(trace_line, digit_match.end + 1)
        new == Len(s.nodes) + 1
        heap == Append(s.nodes, FrameSample(frame, sample_count))
    IN  IF ~digit_match.found THEN ParseFailed
        ELSE IF indentation % _INDENTATION # 0 THEN ParseFailed
        ELSE IF Len(st) > 0
        THEN [ok |-> TRUE, nodes |-> AddChildSample(heap, st[Len(st)], new),
              stack |-> Append(st, new), root_frame |-> s.root_frame]
        ELSE IF s.root_frame # 0 THEN ParseFailed
        ELSE [ok |-> TRUE, nodes |-> heap, stack |-> Append(st, new),
              root_frame |-> new]

ParseStart == [ok |-> TRUE, nodes |-> <<>>, stack |-> <<>>, root_frame |-> 0]

RECURSIVE ParseBody(_, _)
\* the for loop of ThreadTrace.__init__ over the first k body lines
ParseBody(tl, k) ==
    IF k = 0 THEN ParseStart
    ELSE LET s == ParseBody(tl, k - 1)
         IN  IF s.ok THEN TraceLine(s, tl[k + 1]) ELSE ParseFailed

\* ThreadTrace(trace_lines): ok is FALSE when the constructor raises
ThreadTrace(tl) ==
    LET s == ParseBody(tl, Len(tl) - 1)
    IN  [ok |-> s.ok,
         description |-> IF s.ok THEN Strip(tl[1]) ELSE <<>>,
         root_frame |-> s.root_frame,
         nodes |-> s.nodes]

\* ThreadTrace.max_stack_depth of a thread whose root is set
max_stack_depth(h, root) == height(h, root)

-----------------------------------------------------------------------------
(* Python floats.  A float (IEEE 754 binary64) that is finite and not      *)
(* negative is kept as [m, e]: m its 53-bit significand, written as digits   *)
(* of base 1024 with the most significant first (six digits, the first one   *)
(* from 4 to 7), and e the weight of its last bit, so that the value is      *)
(* m * 2^e; 0.0 is [m |-> <<>>, e |-> 0].  Every operation rounds the exact  *)
(* result to the nearest float, ties to the even one.  The ints that meet a  *)
(* float are below 2^20.                                                     *)

RECURSIVE BigOfInt(_)
\* the digits of the natural number n, none for 0
BigOfInt(n) == IF n = 0 THEN <<>> ELSE Append(BigOfInt(n \div 1024), n % 1024)

RECURSIVE BigTrim(_)
\* a without its leading zero digits
BigTrim(a) == IF a # <<>> /\ Head(a) = 0 THEN BigTrim(Tail(a)) ELSE a

RECURSIVE BigMul(_, _, _)
\* a * n + carry
BigMul(a, n, carry) ==
    IF a = <<>> THEN BigOfInt(carry)
    ELSE LET t == a[Len(a)] * n + carry
         IN  Append(BigMul(SubSeq(a, 1, Len(a) - 1), n, t \div 1024), t % 1024)

RECURSIVE BigDivMod(_, _, _, _)
\* long division of a by n, after the quotient digits q and the remainder rem
BigDivMod(a, n, rem, q) ==
    IF a = <<>> THEN [q |-> BigTrim(q), rem |-> rem]
    ELSE LET t == rem * 1024 + Head(a)
         IN  BigDivMod(Tail(a), n, t % n, Append(q, t \div n))

RECURSIVE BitLength(_)
\* n.bit_length()
BitLength(n) == IF n = 0 THEN 0 ELSE 1 + BitLength(n \div 2)

BigBitLength(a) ==
    IF a = <<>> THEN 0 ELSE 10 * (Len(a) - 1) + BitLength(Head(a))

\* a * 2^k
BigShiftLeft(a, k) ==
    BigMul(a, 2 ^ (k % 10), 0) \o [i \in 1..(k \div 10) |-> 0]

\* a \div 2^k for k below the bit length of a, and whether a set bit was lost
BigShiftRight(a, k) ==
    LET kept == Len(a) - (k \div 10)
        d == BigDivMod(SubSeq(a, 1, kept), 2 ^ (k % 10), 0, <<>>)
    IN  [q |-> d.q,
         sticky |-> d.rem # 0 \/ \E i \in (kept + 1)..Len(a) : a[i] # 0]

\* the float nearest to a * 2^e, or to a value just above it when sticky;
\* a may start with zero digits
RoundToFloat(a, e, sticky) ==
    LET p == 53
        t == BigTrim(a)
        n == BigBitLength(t)
    IN  IF n = 0 THEN [m |-> <<>>, e |-> 0]
        ELSE IF n <= p THEN [m |-> BigShiftLeft(t, p - n), e |-> e - (p - n)]
        ELSE LET s == BigShiftRight(t, n - p - 1)
                 h == BigDivMod(s.q, 2, 0, <<>>)
                 up == /\ h.rem = 1
                       /\ sticky \/ s.sticky \/ h.q[Len(h.q)] % 2 = 1
                 r == IF up THEN BigMul(h.q, 1, 1) ELSE h.q
             IN  IF BigBitLength(r) > p
                 THEN [m |-> BigDivMod(r, 2, 0, <<>>).q, e |-> e + (n - p) + 1]
                 ELSE [m |-> r, e |-> e + (n - p)]

\* float(n) of an int n >= 0
FloatOfInt(n) == RoundToFloat(BigOfInt(n), 0, FALSE)

\* n * x of an int n >= 0 and a float x
FloatMulInt(x, n) == RoundToFloat(BigMul(x.m, n, 0), x.e, FALSE)

\* x / n of a float x and an int n > 0
FloatDivInt(x, n) ==
    LET shift == BitLength(n) + 1
        d == BigDivMod(BigShiftLeft(x.m, shift), n, 0, <<>>)
    IN  RoundToFloat(d.q, x.e - shift, d.rem # 0)

\* x <= y
FloatLe(x, y) ==
    \/ x.m = <<>>
    \/ /\ y.m # <<>>
       /\ \/ x.e < y.e
          \/ /\ x.e = y.e
             /\ \/ x.m = y.m
                \/ \E i \in 1..Len(x.m) :
                     /\ x.m[i] < y.m[i]
                     /\ \A j \in 1..(i - 1) : x.m[j] = y.m[j]

-----------------------------------------------------------------------------
(* main(): the layout of one thread, lines 379-406. *)

\* --width, its default
total_width == 5000
\* --sample-height, its default
sample_height == 16

\* the check 0.0 <= t <= 1.0 of linear_interpolation
InUnitInterval(t) == FloatLe(FloatOfInt(0), t) /\ FloatLe(t, FloatOfInt(1))

\* line 381: total_width / thread_trace.root_frame.sample_count
width_per_sample(h, root) ==
    FloatDivInt(FloatOfInt(total_width), h[root].sample_count)

\* lines 401-405 for one yielded triple
Rect(h, root, msd, item) ==
    LET x == FloatMulInt(width_per_sample(h, root), item.start)
    IN  [frame |-> item.frame,
         start |-> item.start,
         depth |-> item.depth,
         x |-> x,
         y |-> FloatMulInt(FloatOfInt(sample_height), item.depth),
         width |-> FloatMulInt(width_per_sample(h, root),
                               h[item.frame].sample_count),
         x_relative |-> FloatDivInt(x, total_width),
         y_relative |-> FloatDivInt(FloatOfInt(item.depth), msd)]

\* color_at_pos(x_relative, y_relative) returns: each of its three
\* linear_interpolation calls passes its assertion
ColorAtPosOk(r) == InUnitInterval(r.y_relative) /\ InUnitInterval(r.x_relative)

-----------------------------------------------------------------------------
(* ProcessTrace and TraceReport *)

\* range(10): the header sections of a report
ReportSections == 10

Thread == Codes("Thread")

\* a bug to compare with: the first line is not stripped before the test
IsThreadSectionUnstripped(process_section) ==
    StartsWith(process_section[1], Thread)

\* process_section[0].lstrip().startswith("Thread")
IsThreadSection(process_section) ==
    StartsWith(LStrip(process_section[1]), Thread)

\* the condition of the while loop of TraceReport.__init__
MoreProcessSections(ls) == ~ls.isNone /\ StartsWith(ls.v[1], <<Space>>)

-----------------------------------------------------------------------------
(* The inputs the specifications draw from. *)

RECURSIVE SeqsUpTo(_, _)
\* the sequences over S of length at most n
SeqsUpTo(S, n) ==
    IF n = 0 THEN {<<>>}
    ELSE LET shorter == SeqsUpTo(S, n - 1)
         IN  shorter \cup {Append(s, x) : s \in {t \in shorter : Len(t) = n - 1},
                                          x \in S}

\* lines for take_until_empty_line: an empty one and two that are not
SplitLineSet == {Codes(""), Codes("a"), Codes(" b")}

ThreadHeader == Codes("  Thread 0x1")

Spaces(n) == [i \in 1..n |-> Space]

\* body lines of a thread block: digit runs at columns 0, 2, 4 and 6, one at
\* the odd column 3, a line without a digit, a zero count, a label with a digit
TraceLineSet ==
    { Codes("3 x"),
      Spaces(2) \o Codes("10 root"),
      Spaces(2) \o Codes("0 z"),
      Spaces(4) \o Codes("4 childA"),
      Spaces(4) \o Codes("6 childB"),
      Spaces(6) \o Codes("12 f2"),
      Spaces(3) \o Codes("5 y"),
      Spaces(2) \o Codes("root") }

NoGen == [started |-> FALSE, root |-> 0, frames |-> <<>>]

\* the variables a specification does not use keep these values
IdleSplit == lines = None /\ sections = <<>> /\ document = <<>>
IdleThread ==
    /\ trace_lines = <<>> /\ idx = 0 /\ nodes = <<>> /\ stack = <<>>
    /\ root_frame = 0 /\ gen = NoGen /\ yielded = <<>> /\ rects = <<>>
IdleReport ==
    /\ report_attributes = <<>> /\ process_attributes = <<>>
    /\ process_sections = <<>> /\ threads = <<>> /\ report = None

splitVars == <<lines, sections, document>>
threadVars == <<trace_lines, idx, nodes, stack, root_frame, gen, yielded, rects>>
reportVars == <<report_attributes, process_attributes, process_sections,
                threads, report>>

-----------------------------------------------------------------------------
(* Repeated take_until_empty_line, as the loops of TraceReport.__init__ use  *)
(* it: each call is given the rest the call before returned.                 *)

InitSplit ==
    /\ pc = "split"
    /\ document \in SeqsUpTo(SplitLineSet, MaxLines)
    /\ lines = Some(document)
    /\ sections = <<>>
    /\ IdleThread /\ IdleReport

\* section, lines = take_until_empty_line(lines) returns
TakeSection ==
    /\ pc = "split"
    /\ LET r == TakeUntilEmptyLine(lines)
       IN  /\ r.ok
           /\ sections' = Append(sections, r.first_lines)
           /\ lines' = r.rest_lines
           /\ pc' = IF r.rest_lines.isNone THEN "done" ELSE "split"
    /\ UNCHANGED <<document, threadVars, reportVars>>

\* take_until_empty_line(lines) raises
TakeRaises ==
    /\ pc = "split"
    /\ ~TakeUntilEmptyLine(lines).ok
    /\ pc' = "error"
    /\ UNCHANGED <<splitVars, threadVars, reportVars>>

NextSplit == TakeSection \/ TakeRaises

SpecSplit == InitSplit /\ [][NextSplit]_vars

-----------------------------------------------------------------------------
(* One thread: ThreadTrace.__init__ line by line, then a full pass over     *)
(* root_frame.iteritems() (as max_string_length makes one), then the layout *)
(* loop of main() for the thread.                                           *)

InitThread ==
    /\ pc = "parse"
    /\ trace_lines \in {<<ThreadHeader>> \o b : b \in SeqsUpTo(TraceLineSet, MaxBody)}
    /\ idx = 0 /\ nodes = <<>> /\ stack = <<>> /\ root_frame = 0
    /\ gen = NoGen /\ yielded = <<>> /\ rects = <<>>
    /\ IdleSplit /\ IdleReport

ParseState == [ok |-> TRUE, nodes |-> nodes, stack |-> stack,
               root_frame |-> root_frame]

\* one pass of the for loop of ThreadTrace.__init__
ParseLine ==
    /\ pc = "parse"
    /\ idx < Len(trace_lines) - 1
    /\ LET s == TraceLine(ParseState, trace_lines[idx + 2])
       IN  /\ s.ok
           /\ nodes' = s.nodes
           /\ stack' = s.stack
           /\ root_frame' = s.root_frame
    /\ idx' = idx + 1
    /\ UNCHANGED <<pc, trace_lines, gen, yielded, rects, splitVars, reportVars>>

\* an assertion of the loop body fails: the constructor raises and no
\* ThreadTrace exists
ParseRaises ==
    /\ pc = "parse"
    /\ idx < Len(trace_lines) - 1
    /\ ~TraceLine(ParseState, trace_lines[idx + 2]).ok
    /\ pc' = "parse_error"
    /\ nodes' = <<>> /\ stack' = <<>> /\ root_frame' = 0
    /\ UNCHANGED <<trace_lines, idx, gen, yielded, rects, splitVars, reportVars>>

\* the loop ends and the constructor returns
ParseReturns ==
    /\ pc = "parse"
    /\ idx = Len(trace_lines) - 1
    /\ pc' = "parsed"
    /\ stack' = <<>>
    /\ UNCHANGED <<trace_lines, idx, nodes, root_frame, gen, yielded, rects,
                   splitVars, reportVars>>

\* self.root_frame.iteritems() of a thread whose root is set
IterStart ==
    /\ pc = "parsed"
    /\ root_frame # 0
    /\ gen' = iteritems(root_frame)
    /\ pc' = "iter"
    /\ UNCHANGED <<trace_lines, idx, nodes, stack, root_frame, yielded, rects,
                   splitVars, reportVars>>

\* self.root_frame is None: the attribute access raises
NoRootRaises ==
    /\ pc = "parsed"
    /\ root_frame = 0
    /\ pc' = "attribute_error"
    /\ UNCHANGED <<threadVars, splitVars, reportVars>>

\* next() of the generator yields a triple
IterNext ==
    /\ pc = "iter"
    /\ LET n == GenNext(nodes, gen)
       IN  /\ n.item.some
           /\ gen' = n.g
           /\ yielded' = Append(yielded, n.item)
    /\ UNCHANGED <<pc, trace_lines, idx, nodes, stack, root_frame, rects,
                   splitVars, reportVars>>

\* next() of the generator raises StopIteration: the pass is over
IterStop ==
    /\ pc = "iter"
    /\ LET n == GenNext(nodes, gen)
       IN  /\ ~n.item.some
           /\ gen' = n.g
    /\ pc' = "iterated"
    /\ UNCHANGED <<trace_lines, idx, nodes, stack, root_frame, yielded, rects,
                   splitVars, reportVars>>

\* main(), lines 381-400: width_per_sample, max_stack_depth, a new iteritems()
MainStart ==
    /\ pc = "iterated"
    /\ nodes[root_frame].sample_count # 0
    /\ gen' = iteritems(root_frame)
    /\ pc' = "main"
    /\ UNCHANGED <<trace_lines, idx, nodes, stack, root_frame, yielded, rects,
                   splitVars, reportVars>>

\* line 381 divides by a root sample_count of 0
MainDividesByZero ==
    /\ pc = "iterated"
    /\ nodes[root_frame].sample_count = 0
    /\ pc' = "zero_division_error"
    /\ UNCHANGED <<threadVars, splitVars, reportVars>>

\* one pass of the loop of lines 400-423: the rectangle of the next triple
MainRect ==
    /\ pc = "main"
    /\ LET n == GenNext(nodes, gen)
           r == Rect(nodes, root_frame, max_stack_depth(nodes, root_frame), n.item)
       IN  /\ n.item.some
           /\ ColorAtPosOk(r)
           /\ gen' = n.g
           /\ rects' = Append(rects, r)
    /\ UNCHANGED <<pc, trace_lines, idx, nodes, stack, root_frame, yielded,
                   splitVars, reportVars>>

\* the assertion of linear_interpolation fails for the next triple
MainAssertRaises ==
    /\ pc = "main"
    /\ LET n == GenNext(nodes, gen)
           r == Rect(nodes, root_frame, max_stack_depth(nodes, root_frame), n.item)
       IN  /\ n.item.some
           /\ ~ColorAtPosOk(r)
           /\ gen' = n.g
    /\ pc' = "assertion_error"
    /\ UNCHANGED <<trace_lines, idx, nodes, stack, root_frame, yielded, rects,
                   splitVars, reportVars>>

\* the loop of main() ends
MainDone ==
    /\ pc = "main"
    /\ LET n == GenNext(nodes, gen)
       IN  /\ ~n.item.some
           /\ gen' = n.g
    /\ pc' = "done"
    /\ UNCHANGED <<trace_lines, idx, nodes, stack, root_frame, yielded, rects,
                   splitVars, reportVars>>

NextThread ==
    \/ ParseLine \/ ParseRaises \/ ParseReturns
    \/ IterStart \/ NoRootRaises \/ IterNext \/ IterStop
    \/ MainStart \/ MainDividesByZero \/ MainRect \/ MainAssertRaises
    \/ MainDone

SpecThread == InitThread /\ [][NextThread]_vars

(* The pass over iteritems() alone, from every thread the constructor      *)
(* returns with a root.                                                     *)

InitIter ==
    /\ pc = "parsed"
    /\ trace_lines \in {<<ThreadHeader>> \o b : b \in SeqsUpTo(TraceLineSet, MaxBody)}
    /\ LET t == ThreadTrace(trace_lines)
       IN  /\ t.ok /\ t.root_frame # 0
           /\ nodes = t.nodes
           /\ root_frame = t.root_frame
    /\ idx = Len(trace_lines) - 1 /\ stack = <<>>
    /\ gen = NoGen /\ yielded = <<>> /\ rects = <<>>
    /\ IdleSplit /\ IdleReport

NextIter == IterStart \/ IterNext \/ IterStop

\* the consumer of the generator goes on calling next() until it ends
FairIter == InitIter /\ [][NextIter]_vars /\ WF_vars(NextIter)


-----------------------------------------------------------------------------
(* TraceReport(lines): one section per step.  `sections` records, in order, *)
(* the sections take_until_empty_line has returned so far (a history), and  *)
(* idx counts the process sections ProcessTrace.__init__ has gone through.  *)

RECURSIVE Join(_, _)
\* the lines of a document made of the sections ss, gap empty lines between two
Join(ss, gap) ==
    IF ss = <<>> THEN <<>>
    ELSE IF Len(ss) = 1 THEN ss[1]
    ELSE ss[1] \o [i \in 1..gap |-> <<>>] \o Join(Tail(ss), gap)

\* the parts of a well-formed header line
HeaderKey == Codes("k")
HeaderValue == Codes(": v")
DigitZero == Ord("0")

\* the i-th header section of a well-formed report
HeaderSectionText(i) == << HeaderKey \o <<DigitZero + (i % 10)>> \o HeaderValue >>

\* header sections to try in place of a well-formed one: a line without a
\* colon, a rule before a key/value line that ends in a no-break space, a
\* title before a line with two colons
OddHeaderSections ==
    { << Codes("no") >>,
      << Codes("----"), Codes("k: v ") \o <<160>> >>,
      << HeavyFormat \o Codes(":"), Codes("a:b:c") >> }

\* sections to follow the process header: thread blocks (a well-formed one, one
\* without a body, a root with count 0, a line without a digit, an odd
\* indentation, a second root), a binary image listing, a thread block whose
\* header starts with a space and a no-break space and whose count is the
\* Arabic-Indic digit three, an unindented section, a thread block indented
\* with a tab whose body line has no digit
ProcessSectionSet ==
    { << Spaces(2) \o Thread \o Codes(" 1"),
         Spaces(2) \o Codes("10 root"),
         Spaces(4) \o Codes("4 childA") >>,
      << Spaces(2) \o Thread \o Codes(" 2") >>,
      << Spaces(2) \o Thread \o Codes(" 3"),
         Spaces(2) \o Codes("0 z") >>,
      << Spaces(2) \o Thread \o Codes(" 4"),
         Spaces(2) \o Codes("root") >>,
      << Spaces(2) \o Thread \o Codes(" 5"),
         Spaces(3) \o Codes("5 y") >>,
      << Spaces(2) \o Thread \o Codes(" 6"),
         Spaces(2) \o Codes("10 root"),
         Spaces(2) \o Codes("0 z") >>,
      << Spaces(2) \o Codes("Binary:"),
         Spaces(4) \o Codes("0x1 lib") >>,
      << <<Space, 160>> \o Thread \o Codes(" 7"),
         Spaces(2) \o <<1635>> \o Codes(" u") >>,
      << Codes("P: b") >>,
      << <<9>> \o Thread \o Codes(" 8"),
         Spaces(2) \o Codes("root") >> }

\* the numbers of leading sections tried: none, one, one too few, all
HeadCounts == {0, 1, ReportSections, ReportSections + 1}

\* the documents: n leading sections, one of them possibly replaced, then up
\* to MaxProc further sections
Documents ==
    { Join([i \in 1..n |-> IF i = at THEN odd ELSE HeaderSectionText(i)] \o tail,
           gap) :
        n \in HeadCounts,
        at \in {0, 1, ReportSections, ReportSections + 1},
        odd \in OddHeaderSections,
        tail \in SeqsUpTo(ProcessSectionSet, MaxProc),
        gap \in 1..2 }

InitReport ==
    /\ pc = "headers"
    /\ document \in Documents
    /\ lines = Some(document)
    /\ sections = <<>>
    /\ report_attributes = <<>> /\ process_attributes = <<>>
    /\ process_sections = <<>> /\ threads = <<>> /\ report = None
    /\ IdleThread

\* an exception leaves TraceReport.__init__: nothing it built is kept
Raise ==
    /\ pc' = "error"
    /\ report_attributes' = <<>> /\ process_attributes' = <<>>
    /\ process_sections' = <<>> /\ threads' = <<>> /\ report' = None
    /\ UNCHANGED <<document, threadVars>>

\* section, lines = take_until_empty_line(lines); split_on_colon(section),
\* one of which raises: take_until_empty_line before anything is assigned,
\* split_on_colon after the section was taken and lines is the rest
TakeOrSplitRaises ==
    LET t == TakeUntilEmptyLine(lines)
    IN  \/ /\ ~t.ok
           /\ UNCHANGED <<lines, sections>>
        \/ /\ t.ok /\ ~SplitOnColon(t.first_lines).ok
           /\ lines' = t.rest_lines
           /\ sections' = Append(sections, t.first_lines)

\* one pass of the loop of lines 110-113
HeaderSection ==
    /\ pc = "headers"
    /\ LET t == TakeUntilEmptyLine(lines)
           a == SplitOnColon(t.first_lines)
       IN  /\ t.ok /\ a.ok
           /\ lines' = t.rest_lines
           /\ sections' = Append(sections, t.first_lines)
           /\ report_attributes' = Append(report_attributes, a.result)
           /\ pc' = IF Len(report_attributes) + 1 = ReportSections
                    THEN "process_header" ELSE "headers"
    /\ UNCHANGED <<document, process_attributes, process_sections, threads,
                   report, threadVars>>

\* line 111 or line 112 raises
HeaderRaises ==
    /\ pc = "headers"
    /\ TakeOrSplitRaises
    /\ Raise

\* lines 115-117
ProcessHeader ==
    /\ pc = "process_header"
    /\ LET t == TakeUntilEmptyLine(lines)
           a == SplitOnColon(t.first_lines)
       IN  /\ t.ok /\ a.ok
           /\ lines' = t.rest_lines
           /\ sections' = Append(sections, t.first_lines)
           /\ process_attributes' = a.result
    /\ pc' = "process_sections"
    /\ UNCHANGED <<document, report_attributes, process_sections, threads,
                   report, threadVars>>

\* line 115 or line 116 raises
ProcessHeaderRaises ==
    /\ pc = "process_header"
    /\ TakeOrSplitRaises
    /\ Raise

\* one pass of the while loop of lines 118-120
ProcessSection ==
    /\ pc = "process_sections"
    /\ MoreProcessSections(lines)
    /\ LET t == TakeUntilEmptyLine(lines)
       IN  /\ lines' = t.rest_lines
           /\ sections' = Append(sections, t.first_lines)
           /\ process_sections' = Append(process_sections, t.first_lines)
    /\ UNCHANGED <<pc, document, report_attributes, process_attributes, threads,
                   report, threadVars>>

\* the while loop ends; line 121 calls ProcessTrace(...)
ProcessTraceStart ==
    /\ pc = "process_sections"
    /\ ~MoreProcessSections(lines)
    /\ pc' = "process_trace"
    /\ UNCHANGED <<splitVars, reportVars, threadVars>>

\* one pass of the loop of ProcessTrace.__init__ on a thread block
ThreadSection ==
    /\ pc = "process_trace"
    /\ idx < Len(process_sections)
    /\ IsThreadSection(process_sections[idx + 1])
    /\ LET t == ThreadTrace(process_sections[idx + 1])
       IN  /\ t.ok
           /\ threads' = Append(threads, [description |-> t.description,
                                          root_frame |-> t.root_frame,
                                          nodes |-> t.nodes])
    /\ idx' = idx + 1
    /\ UNCHANGED <<pc, splitVars, report_attributes, process_attributes,
                   process_sections, report, trace_lines, nodes, stack,
                   root_frame, gen, yielded, rects>>

\* ThreadTrace(process_section) raises
ThreadSectionRaises ==
    /\ pc = "process_trace"
    /\ idx < Len(process_sections)
    /\ IsThreadSection(process_sections[idx + 1])
    /\ ~ThreadTrace(process_sections[idx + 1]).ok
    /\ UNCHANGED <<lines, sections>>
    /\ Raise

\* one pass of the loop on a section that is no thread block: thrown away
OtherSection ==
    /\ pc = "process_trace"
    /\ idx < Len(process_sections)
    /\ ~IsThreadSection(process_sections[idx + 1])
    /\ idx' = idx + 1
    /\ UNCHANGED <<pc, splitVars, reportVars, trace_lines, nodes, stack,
                   root_frame, gen, yielded, rects>>

\* ProcessTrace.__init__ and TraceReport.__init__ return
ReportReturns ==
    /\ pc = "process_trace"
    /\ idx = Len(process_sections)
    /\ report' = Some([report_attributes |-> report_attributes,
                       process_trace |-> [attributes |-> process_attributes,
                                          threads |-> threads]])
    /\ pc' = "done"
    /\ UNCHANGED <<splitVars, report_attributes, process_attributes,
                   process_sections, threads, threadVars>>

NextReport ==
    \/ HeaderSection \/ HeaderRaises \/ ProcessHeader \/ ProcessHeaderRaises
    \/ ProcessSection \/ ProcessTraceStart
    \/ ThreadSection \/ ThreadSectionRaises \/ OtherSection \/ ReportReturns

SpecReport == InitReport /\ [][NextReport]_vars


-----------------------------------------------------------------------------
(* What the properties below are stated with: definitions of their own,     *)
(* not taken from the operations above.                                      *)

RECURSIVE RunsFrom(_, _, _)
RunsFrom(ls, cur, acc) ==
    IF ls = <<>> THEN (IF cur = <<>> THEN acc ELSE Append(acc, cur))
    ELSE IF Head(ls) = <<>>
    THEN RunsFrom(Tail(ls), <<>>, IF cur = <<>> THEN acc ELSE Append(acc, cur))
    ELSE RunsFrom(Tail(ls), Append(cur, Head(ls)), acc)

\* the maximal runs of non-empty lines of ls, in order
Runs(ls) == RunsFrom(ls, <<>>, <<>>)

RECURSIVE Concat(_)
Concat(ss) == IF ss = <<>> THEN <<>> ELSE Head(ss) \o Concat(Tail(ss))

IsNonEmptyLine(l) == l # <<>>

\* the lines left to split (none when the rest is None)
Remaining == IF lines.isNone THEN <<>> ELSE lines.v

\* (first, rest) is what the claim says of the line list ls
SplitsAsClaimed(ls, first, rest) ==
    LET k == Len(first)
        later == {j \in (k + 1)..Len(ls) : ls[j] # <<>>}
    IN  /\ k >= 1 /\ k <= Len(ls)
        /\ first = SubSeq(ls, 1, k)
        /\ \A i \in 1..k : ls[i] # <<>>
        /\ k = Len(ls) \/ ls[k + 1] = <<>>
        /\ IF later = {} THEN rest = None
           ELSE LET j == CHOOSE x \in later : \A y \in later : x <= y
                IN  rest = Some(SubSeq(ls, j, Len(ls)))

\* C6: of a line list that is not empty and starts with a non-empty line,
\* take_until_empty_line returns the longest prefix without an empty line and
\* the suffix from the next non-empty line on (None when there is none); the
\* rest is again such a list and shorter, so repeating the call ends, and the
\* sections it returned are the maximal runs of non-empty lines of the input,
\* in order; on an empty list or a list whose first line is empty it fails
C6_SectionSplitting ==
    LET pre == document # <<>> /\ document[1] # <<>>
        r == TakeUntilEmptyLine(lines)
    IN  /\ ~pre => /\ sections = <<>>
                   /\ pc \in {"split", "error"}
                   /\ pc = "split" => ~r.ok
        /\ pc = "error" => ~pre
        /\ pc = "split" /\ pre =>
             /\ ~lines.isNone /\ lines.v # <<>> /\ lines.v[1] # <<>>
             /\ r.ok
             /\ SplitsAsClaimed(lines.v, r.first_lines, r.rest_lines)
             /\ Len(r.rest_lines.v) < Len(lines.v)
        /\ pre => sections \o Runs(Remaining) = Runs(document)
        /\ pc = "done" =>
             /\ lines = None
             /\ sections = Runs(document)
             /\ Concat(sections) = SelectSeq(document, IsNonEmptyLine)

\* two sections come out of a document with two empty lines in a row between
\* them and an empty line at its end
C6_Witness ==
    /\ pc = "done"
    /\ Len(sections) = 2
    /\ document[Len(document)] = <<>>
    /\ \E i \in 1..(Len(document) - 2) :
         document[i] = <<>> /\ document[i + 1] = <<>> /\ document[i + 2] # <<>>

-----------------------------------------------------------------------------
(* Thread blocks, read from the text alone. *)

RECURSIVE DigitColumn(_)
\* the number of characters before the first decimal digit of line l
DigitColumn(l) ==
    IF l = <<>> \/ IsDigit(Head(l))
    THEN 0 ELSE 1 + DigitColumn(Tail(l))

HoldsDigit(l) == DigitColumn(l) < Len(l)

RECURSIVE NumberAt(_, _)
\* the value of the digit run of l that starts at its head, after acc
NumberAt(l, acc) ==
    IF l = <<>> THEN acc
    ELSE IF IsDigit(Head(l))
         THEN NumberAt(Tail(l), 10 * acc + DigitValue(Head(l)))
         ELSE acc

\* the value of the first digit run of l
FirstNumber(l) == NumberAt(SubSeq(l, DigitColumn(l) + 1, Len(l)), 0)

\* the nested_level the text of l gives
LevelOf(l) == DigitColumn(l) \div 2

\* the k-th body line of a thread block
Body(tl, k) == tl[k + 1]

\* every body line holds a digit at an even column
WellIndented(tl) ==
    \A k \in 1..(Len(tl) - 1) :
        HoldsDigit(Body(tl, k)) /\ DigitColumn(Body(tl, k)) % 2 = 0

\* the blocks C1 is about
WellNested(tl) ==
    /\ Len(tl) >= 2
    /\ WellIndented(tl)
    /\ LevelOf(Body(tl, 1)) = 1
    /\ \A k \in 2..(Len(tl) - 1) :
         /\ LevelOf(Body(tl, k)) >= 2
         /\ LevelOf(Body(tl, k)) <= LevelOf(Body(tl, k - 1)) + 1

\* frame c is listed among the children of frame p
IsChildOf(h, c, p) ==
    \E i \in 1..Len(h[p].child_samples) : h[p].child_samples[i] = c

\* the frames that list c as a child, each as often as it lists it
ParentSlots(h, c) ==
    {<<p, i>> \in (1..Len(h)) \X (1..Len(h)) :
        i <= Len(h[p].child_samples) /\ h[p].child_samples[i] = c}

ParentOf(h, c) == CHOOSE p \in 1..Len(h) : IsChildOf(h, c, p)

\* ThreadTrace.__init__ has returned
Constructed == pc \notin {"parse", "parse_error"}

\* C1: in a thread block whose first body line is at nested_level 1 and whose
\* later lines are each at a level from 2 to one more than the line before,
\* the frame of line 1 is the root, the frame of every later line is a child
\* of the frame of the latest earlier line one level up, children are in the
\* order of their lines, and each sample_count is its line's first number
C1_TreeFromIndentation ==
    WellNested(trace_lines) =>
        /\ pc # "parse_error"
        /\ Len(nodes) = (IF pc = "parse" THEN idx ELSE Len(trace_lines) - 1)
        /\ Len(nodes) >= 1 => root_frame = 1
        /\ ParentSlots(nodes, 1) = {}
        /\ \A k \in 2..Len(nodes) :
             /\ Cardinality(ParentSlots(nodes, k)) = 1
             /\ LET p == ParentOf(nodes, k)
                    up == LevelOf(Body(trace_lines, k)) - 1
                IN  /\ p < k
                    /\ LevelOf(Body(trace_lines, p)) = up
                    /\ \A j \in (p + 1)..(k - 1) :
                         LevelOf(Body(trace_lines, j)) # up
        /\ \A f \in 1..Len(nodes) :
             /\ \A i \in 1..(Len(nodes[f].child_samples) - 1) :
                  nodes[f].child_samples[i] < nodes[f].child_samples[i + 1]
             /\ nodes[f].sample_count = FirstNumber(Body(trace_lines, f))

\* root 10 with the children childA 4 and childB 6 in this order, childA with
\* a child of its own
C1_Witness ==
    /\ pc = "parsed"
    /\ WellNested(trace_lines)
    /\ Len(nodes) = 4
    /\ nodes[1].sample_count = 10 /\ nodes[1].child_samples = <<2, 4>>
    /\ nodes[2].sample_count = 4 /\ nodes[2].child_samples = <<3>>
    /\ nodes[4].sample_count = 6

\* C9: in a thread block that parses, whatever the levels of its lines, every
\* frame but the root hangs under a frame whose line has a smaller
\* nested_level, and the stack as cut for a line at level n holds fewer than
\* n frames
C9_NoMisattribution ==
    Constructed =>
        /\ \A k \in 1..Len(nodes) :
             k # root_frame =>
                 LevelOf(Body(trace_lines, ParentOf(nodes, k)))
                     < LevelOf(Body(trace_lines, k))
        /\ \A k \in 1..Len(nodes) :
             Len(ShortenStack(ParseBody(trace_lines, k - 1).stack,
                              LevelOf(Body(trace_lines, k))))
                 < LevelOf(Body(trace_lines, k))


-----------------------------------------------------------------------------
(* The traversal. *)

RECURSIVE PreOrder(_, _)
RECURSIVE PreOrderAll(_, _)
\* frame f of heap h, then the subtrees of its children one after another
PreOrder(h, f) == <<f>> \o PreOrderAll(h, h[f].child_samples)
PreOrderAll(h, fs) ==
    IF fs = <<>> THEN <<>> ELSE PreOrder(h, Head(fs)) \o PreOrderAll(h, Tail(fs))

\* the frames yielded so far, in order
YieldedFrames == [i \in 1..Len(yielded) |-> yielded[i].frame]

\* the triple yielded for frame f
YieldOf(f) == yielded[CHOOSE i \in 1..Len(yielded) : yielded[i].frame = f]

WasYielded(f) == \E i \in 1..Len(yielded) : yielded[i].frame = f

\* the pass over iteritems() is complete
Iterated == pc \notin {"parse", "parse_error", "parsed", "attribute_error", "iter"}

\* what has been yielded is right so far: a prefix of the pre-order of the
\* tree without a repeated frame, the root at depth 0 and every other frame
\* one deeper than its parent; when the generator has ended it is all of it
C2_YieldedIsPreOrder ==
    Constructed /\ root_frame # 0 =>
        LET order == PreOrder(nodes, root_frame)
        IN  /\ Len(yielded) <= Len(order)
            /\ YieldedFrames = SubSeq(order, 1, Len(yielded))
            /\ \A i, j \in 1..Len(yielded) :
                 yielded[i].frame = yielded[j].frame => i = j
            /\ \A i \in 1..Len(yielded) :
                 IF yielded[i].frame = root_frame THEN yielded[i].depth = 0
                 ELSE LET p == ParentOf(nodes, yielded[i].frame)
                      IN  /\ \E j \in 1..(i - 1) : yielded[j].frame = p
                          /\ yielded[i].depth = YieldOf(p).depth + 1
            /\ Iterated =>
                 /\ Len(yielded) = Len(nodes)
                 /\ \A f \in 1..Len(nodes) : WasYielded(f)

\* C2: the sequence of iteritems() ends, and holds every frame of the tree
\* once, in pre-order: a frame before its descendants, the subtrees of its
\* children one after another in their stored order, the root at depth 0 and
\* every other frame one deeper than its parent
C2_PreOrderAndTermination ==
    /\ []C2_YieldedIsPreOrder
    /\ (pc = "iter") ~> (pc = "iterated")

\* the pass is over on a tree of four frames: a root with two children, the
\* first of them with a child
C2_Witness ==
    /\ pc = "iterated"
    /\ Len(yielded) = 4
    /\ Len(nodes[root_frame].child_samples) = 2
    /\ Len(nodes[nodes[root_frame].child_samples[1]].child_samples) = 1

RECURSIVE SumCounts(_, _)
\* the sum of the sample_counts of the frames fs
SumCounts(h, fs) ==
    IF fs = <<>> THEN 0 ELSE h[Head(fs)].sample_count + SumCounts(h, Tail(fs))

\* C3: the root starts at 0, a first child where its parent starts, and a
\* later child where the sibling before it starts plus that sibling's
\* sample_count: the parent's start plus the counts of the earlier siblings
C3_SiblingStarts ==
    Constructed /\ root_frame # 0 =>
        /\ WasYielded(root_frame) => YieldOf(root_frame).start = 0
        /\ \A p \in 1..Len(nodes) :
             \A i \in 1..Len(nodes[p].child_samples) :
                LET kids == nodes[p].child_samples
                    c == kids[i]
                IN  WasYielded(c) =>
                      /\ WasYielded(p)
                      /\ i = 1 => YieldOf(c).start = YieldOf(p).start
                      /\ i > 1 =>
                           /\ WasYielded(kids[i - 1])
                           /\ YieldOf(c).start =
                                YieldOf(kids[i - 1]).start
                                  + nodes[kids[i - 1]].sample_count
                      /\ YieldOf(c).start =
                           YieldOf(p).start + SumCounts(nodes, SubSeq(kids, 1, i - 1))
        /\ Iterated => \A f \in 1..Len(nodes) : WasYielded(f)

\* the pass is over on a tree whose root has two children, the first of them
\* with a child whose count is larger than its own, the second starting at
\* the first one's count
C3_Witness ==
    /\ pc = "iterated"
    /\ Len(nodes[root_frame].child_samples) = 2
    /\ LET c1 == nodes[root_frame].child_samples[1]
           c2 == nodes[root_frame].child_samples[2]
       IN  /\ Len(nodes[c1].child_samples) = 1
           /\ nodes[nodes[c1].child_samples[1]].sample_count
                > nodes[c1].sample_count
           /\ nodes[c1].sample_count > 0
           /\ YieldOf(c2).start = nodes[c1].sample_count

\* the greatest depth yielded
MaxYieldedDepth ==
    CHOOSE d \in {yielded[i].depth : i \in 1..Len(yielded)} :
        \A i \in 1..Len(yielded) : yielded[i].depth <= d

\* C8: the height of a frame is at least 1, is 1 exactly when the frame has no
\* children, and is otherwise 1 more than the greatest height of its
\* children; max_stack_depth is 1 more than the greatest depth iteritems()
\* yields and every depth yielded is smaller than it
C8_Height ==
    Constructed /\ root_frame # 0 =>
        /\ \A f \in 1..Len(nodes) :
             LET kids == nodes[f].child_samples
             IN  /\ height(nodes, f) >= 1
                 /\ height(nodes, f) = 1 <=> kids = <<>>
                 /\ kids # <<>> =>
                      /\ \A i \in 1..Len(kids) :
                           height(nodes, kids[i]) + 1 <= height(nodes, f)
                      /\ \E i \in 1..Len(kids) :
                           height(nodes, kids[i]) + 1 = height(nodes, f)
        /\ \A i \in 1..Len(yielded) :
             yielded[i].depth < max_stack_depth(nodes, root_frame)
        /\ Iterated =>
             max_stack_depth(nodes, root_frame) = 1 + MaxYieldedDepth

\* the pass is over on a tree of height 3 whose root has a leaf child and a
\* child with a child
C8_Witness ==
    /\ pc = "iterated"
    /\ max_stack_depth(nodes, root_frame) = 3
    /\ \E i, j \in 1..Len(nodes[root_frame].child_samples) :
         /\ height(nodes, nodes[root_frame].child_samples[i]) = 1
         /\ height(nodes, nodes[root_frame].child_samples[j]) = 2

\* C10: in the layout loop of main(), every frame emitted has start +
\* sample_count <= the root's sample_count and depth < max_stack_depth, both
\* normalized coordinates lie in [0, 1] and the assertion of
\* linear_interpolation never fails
C10_InterpolationInDomain ==
    /\ pc # "assertion_error"
    /\ \A i \in 1..Len(rects) :
         /\ rects[i].start + nodes[rects[i].frame].sample_count
              <= nodes[root_frame].sample_count
         /\ rects[i].depth < max_stack_depth(nodes, root_frame)
         /\ InUnitInterval(rects[i].x_relative)
         /\ InUnitInterval(rects[i].y_relative)


-----------------------------------------------------------------------------
(* Reports, read from the text alone. *)

\* the header sections and the process header
LeadingSections == ReportSections + 1

RECURSIVE Occurs(_, _)
\* pat occurs in line l
Occurs(l, pat) ==
    IF Len(l) < Len(pat) THEN FALSE
    ELSE SubSeq(l, 1, Len(pat)) = pat \/ Occurs(Tail(l), pat)

RECURSIVE LeadingBlanks(_)
\* the number of whitespace characters line l starts with
LeadingBlanks(l) ==
    IF l # <<>> /\ IsSpace(Head(l)) THEN 1 + LeadingBlanks(Tail(l)) ELSE 0

\* the first line of the section, its leading whitespace aside, starts with
\* the word Thread
IsThreadBlock(sec) ==
    LET l == sec[1]
        k == LeadingBlanks(l)
    IN  Len(l) >= k + 6 /\ SubSeq(l, k + 1, k + 6) = Thread

\* the first line of the section starts with a space
IsIndented(sec) == sec[1][1] = Space

IsIndentedThreadBlock(sec) == IsIndented(sec) /\ IsThreadBlock(sec)

\* the index of the last section of S that the report takes: the sections
\* after the process header are taken up to the first that is not indented
LastTaken(S) ==
    CHOOSE m \in LeadingSections..Len(S) :
        /\ \A j \in (LeadingSections + 1)..m : IsIndented(S[j])
        /\ m = Len(S) \/ ~IsIndented(S[m + 1])

\* the ThreadTrace objects of the thread blocks bs, in order
TracesOf(bs) ==
    [k \in 1..Len(bs) |-> [description |-> ThreadTrace(bs[k]).description,
                           root_frame |-> ThreadTrace(bs[k]).root_frame,
                           nodes |-> ThreadTrace(bs[k]).nodes]]

\* what every reading of C7 says of the header sections
HeadersAsClaimed(S) ==
    /\ Len(S) < LeadingSections => pc # "done" /\ report = None
    /\ pc = "done" =>
         /\ Len(S) >= LeadingSections
         /\ ~report.isNone
         /\ Len(report.v.report_attributes) = ReportSections
         /\ \A i \in 1..ReportSections :
              report.v.report_attributes[i] = SplitOnColon(S[i]).result
         /\ report.v.process_trace.attributes
              = SplitOnColon(S[LeadingSections]).result

\* C7, as amended: the first 10 sections give report_attributes, in order, the
\* 11th the process attributes; the sections after it are taken up to (not
\* including) the first one whose first line does not start with a space, and
\* threads holds, in order, one ThreadTrace for each section taken whose first
\* line, stripped on the left, starts with "Thread", and nothing else; a
\* document with fewer than 11 sections fails to parse
C7_ReportAssembly ==
    LET S == Runs(document)
    IN  /\ HeadersAsClaimed(S)
        /\ pc = "done" =>
             report.v.process_trace.threads
               = TracesOf(SelectSeq(SubSeq(S, LeadingSections + 1, LastTaken(S)),
                                    IsThreadBlock))

\* C7, as stated: threads holds one ThreadTrace for each indented section
\* after the 11th whose first line, stripped on the left, starts with "Thread"
C7_AllIndentedSections ==
    LET S == Runs(document)
    IN  /\ HeadersAsClaimed(S)
        /\ pc = "done" =>
             Len(report.v.process_trace.threads)
               = Len(SelectSeq(SubSeq(S, LeadingSections + 1, Len(S)),
                               IsIndentedThreadBlock))

\* a report of two sections after the process header: a binary image listing,
\* thrown away, and a thread block
C7_Witness ==
    /\ pc = "done"
    /\ Len(process_sections) = 2
    /\ ~IsThreadBlock(process_sections[1])
    /\ Len(report.v.process_trace.threads) = 1
    /\ Len(report.v.process_trace.threads[1].nodes) = 2

\* a header line that split_on_colon must refuse
HeaderDefect(sec) ==
    \E i \in 1..Len(sec) :
        /\ \A c \in 1..Len(sec[i]) : sec[i][c] # Colon
        /\ ~Occurs(sec[i], Rule)
        /\ ~Occurs(sec[i], HeavyFormat)

\* body line k of the thread block would be a second root: the lines before
\* it parse, a root is set and the stack as cut for the line is empty
SecondRoot(block, k) ==
    LET s == ParseBody(block, k - 1)
    IN  /\ s.ok /\ s.root_frame # 0
        /\ HoldsDigit(Body(block, k))
        /\ ShortenStack(s.stack, LevelOf(Body(block, k))) = <<>>

\* a body line that ThreadTrace must refuse
ThreadDefect(sec) ==
    /\ IsThreadBlock(sec)
    /\ \E k \in 1..(Len(sec) - 1) :
         \/ ~HoldsDigit(Body(sec, k))
         \/ DigitColumn(Body(sec, k)) % 2 # 0
         \/ SecondRoot(sec, k)

\* the sections of S with a structural error: a header section or the process
\* header with a line split_on_colon must refuse, a thread block after them
\* with a body line ThreadTrace must refuse
Defects(S) ==
    {j \in 1..Len(S) :
        \/ j <= LeadingSections /\ HeaderDefect(S[j])
        \/ j > LeadingSections /\ ThreadDefect(S[j])}

\* those of them in the sections the report reads
DefectsRead(S) ==
    {j \in Defects(S) : j <= LeadingSections \/ j <= LastTaken(S)}

\* the section the construction was at when it raised: the section taken last
\* when split_on_colon raised, the process section ProcessTrace was at when
\* ThreadTrace raised
FailingSection ==
    IF Len(sections) <= LeadingSections THEN Len(sections)
    ELSE LeadingSections + idx + 1

\* a document whose sections D have structural errors is not constructed: the
\* construction raises at the first section of D, the sections taken before
\* it are the sections of the document before it, and no TraceReport nor any
\* part of one is left
FatalAtFirstOf(D) ==
    LET S == Runs(document)
        left == Runs(Remaining)
    IN  /\ D # {} => pc # "done"
        /\ pc \in {"headers", "process_header"} /\ left # <<>>
              /\ HeaderDefect(left[1]) =>
             ~SplitOnColon(TakeUntilEmptyLine(lines).first_lines).ok
        /\ pc = "process_trace" /\ idx < Len(process_sections)
              /\ ThreadDefect(process_sections[idx + 1]) =>
             /\ IsThreadSection(process_sections[idx + 1])
             /\ ~ThreadTrace(process_sections[idx + 1]).ok
        /\ pc # "done" => report = None
        /\ pc = "error" =>
             /\ report_attributes = <<>> /\ process_attributes = <<>>
             /\ process_sections = <<>> /\ threads = <<>>
             /\ Len(sections) <= Len(S)
             /\ sections = SubSeq(S, 1, Len(sections))
        /\ pc = "error" /\ D # {} =>
             /\ FailingSection \in D
             /\ \A j \in D : FailingSection <= j

\* C5, as amended: a body line without a digit, or with its first digit at an
\* odd column, or that would be a second root, in a thread block that the
\* report reads (a section after the process header and before the first
\* section whose first line does not start with a space), or a line of a
\* header section or of the process header without a colon that is not
\* skipped: the construction of the TraceReport raises, at the first section
\* with such a line, and no TraceReport nor any part of one is left
C5_StructuralErrorsAreFatal == FatalAtFirstOf(DefectsRead(Runs(document)))

\* C5, as stated: the same of a body line of any thread block of the document
C5_AnyThreadBlock == FatalAtFirstOf(Defects(Runs(document)))

\* the construction raised at the second thread block, after a first thread
\* block that parsed
C5_Witness ==
    /\ pc = "error"
    /\ Len(sections) = LeadingSections + 2
    /\ idx = 1
    /\ IsThreadBlock(sections[LeadingSections + 1])
    /\ ThreadDefect(sections[LeadingSections + 2])

\* C4: every ThreadTrace of a TraceReport that was constructed has its root
\* set, with max_stack_depth >= 1 and a root sample_count >= 1
C4_LayoutPreconditions ==
    pc = "done" =>
        \A k \in 1..Len(report.v.process_trace.threads) :
            LET t == report.v.process_trace.threads[k]
            IN  /\ t.root_frame # 0
                /\ max_stack_depth(t.nodes, t.root_frame) >= 1
                /\ t.nodes[t.root_frame].sample_count >= 1

====
